---------------------------- MODULE Spec2Model ----------------------------
(***************************************************************************)
(* A model of logging_tools: the base-N encoder (common.to_base), the      *)
(* instrumented read stream (common.ReadTimingStreamWrapper), the scoped   *)
(* context store (common.GlobalLogContext), the safe field merger          *)
(* (json.safemerge) and the JSON record formatter (json.JsonLogFormatter). *)
(*                                                                         *)
(* Encodings.                                                              *)
(*  - A Python dict is an insertion-ordered sequence of <<key, value>>     *)
(*    pairs with pairwise distinct keys; Python's dict equality ignores    *)
(*    the order, and so does AsMap.                                        *)
(*  - A dict key is the pair <<name, n>>: the string made of `name`        *)
(*    (which does not end in an underscore) followed by n underscores, so  *)
(*    that "%s_" % (key,) is <<name, n + 1>>.                              *)
(*  - Values are opaque strings; None and the Undefined sentinel are the   *)
(*    strings "None" and "Undefined".                                      *)
(***************************************************************************)
EXTENDS Integers, Sequences, FiniteSets, TLC

VARIABLES
    \* ---- GlobalLogContext (one thread's instance) and its callers
    items,          \* self._items
    scopes,         \* the with_log_context generators suspended at their yield
    snapshot,       \* what a caller holds from get_log_context()
    g_started,      \* history: a scope has been entered
    g_base,         \* history: items when the outermost scope was entered
    g_clean,        \* history: no set or snapshot write since g_base
    g_lifo,         \* history: every exit since g_base was of the innermost
                    \*          scope
    g_raised,       \* history: a scope was left by an error since g_base
    g_seen,         \* history: the keys overridden since g_base
    g_last,         \* history: key -> what touched it last: an "entry", the
                    \*          restoration of the "first" scope that overrode
                    \*          it since g_base, or that of a "later" one
    \* ---- safemerge called on its own
    m_target, m_input, m_reserved, m_skip, m_result, m_pc,
    \* ---- JsonLogFormatter: configuration, the record, format's locals
    base_fields, get_environ, context_from_environ, prefix,
    r_msg, r_exc_info, r_dict,
    record_obj, f_i, context, environ, json_str, f_out, f_pc,
    \* ---- ReadTimingStreamWrapper
    read_byte_count, first_read_time, last_read_time,
    now, rd_result, g_returned, g_reads,
    \* ---- to_base
    number, alphabet, in_base, tb_arg, tb_result, tb_pc

ctxVars == <<items, scopes, snapshot, g_started, g_base, g_clean, g_lifo,
             g_raised, g_seen, g_last>>
mergeVars == <<m_target, m_input, m_reserved, m_skip, m_result, m_pc>>
cfgVars == <<base_fields, get_environ, context_from_environ, prefix,
             r_msg, r_exc_info, r_dict>>
fmtVars == <<record_obj, f_i, context, environ, json_str, f_out, f_pc>>
readVars == <<read_byte_count, first_read_time, last_read_time, now,
              rd_result, g_returned, g_reads>>
baseVars == <<number, alphabet, in_base, tb_arg, tb_result, tb_pc>>
vars == <<ctxVars, mergeVars, cfgVars, fmtVars, readVars, baseVars>>

\* what the operations of one component leave alone
CtxFrame == UNCHANGED <<mergeVars, cfgVars, fmtVars, readVars, baseVars>>
MergeFrame == UNCHANGED <<ctxVars, cfgVars, fmtVars, readVars, baseVars>>
FmtFrame == UNCHANGED <<ctxVars, mergeVars, cfgVars, readVars, baseVars>>
ReadFrame == UNCHANGED <<ctxVars, mergeVars, cfgVars, fmtVars, baseVars>>
BaseFrame == UNCHANGED <<ctxVars, mergeVars, cfgVars, fmtVars, readVars>>

-----------------------------------------------------------------------------
(* Python dicts *)

K(name, n) == <<name, n>>

Undefined == "Undefined"
None == "None"

DictKeys(d) == {d[i][1] : i \in DOMAIN d}

Has(d, k) == k \in DictKeys(d)

\* d.get(k, default)
Get(d, k, default) ==
    IF Has(d, k) THEN d[CHOOSE i \in DOMAIN d : d[i][1] = k][2] ELSE default

\* d[k] = v : an existing key keeps its position, a new one goes last
Put(d, k, v) ==
    IF Has(d, k)
    THEN [i \in DOMAIN d |-> IF d[i][1] = k THEN <<k, v>> ELSE d[i]]
    ELSE Append(d, <<k, v>>)

\* d.pop(k, None)
Pop(d, k) ==
    LET keep(e) == e[1] # k IN SelectSeq(d, keep)

\* d.update(other)
RECURSIVE Update(_, _)
Update(d, other) ==
    IF other = <<>> THEN d
    ELSE Update(Put(d, Head(other)[1], Head(other)[2]), Tail(other))

\* the mapping a dict denotes (what == compares)
AsMap(d) == [k \in DictKeys(d) |-> Get(d, k, None)]

\* every dict of at most n entries over the given keys and values
RECURSIVE Dicts(_, _, _)
Dicts(keys, vals, n) ==
    IF n = 0 THEN {<<>>}
    ELSE LET shorter == Dicts(keys, vals, n - 1) IN
         shorter \cup
         UNION {{Append(d, <<k, v>>) : k \in keys \ DictKeys(d), v \in vals} :
                  d \in {x \in shorter : Len(x) = n - 1}}

-----------------------------------------------------------------------------
(* json.safemerge *)

safemerge_key_ignores_reserved(key, target, reserved) ==
    LET n == CHOOSE m \in 0..(Len(target) + 1) :
                 /\ ~Has(target, K(key[1], key[2] + m))
                 /\ \A j \in 0..(m - 1) : Has(target, K(key[1], key[2] + j))
    IN K(key[1], key[2] + n)

\* lines 42-43: while key in target or key in reserved: key = "%s_" % (key,)
\* ends at the key with the fewest appended underscores that is neither in
\* target nor reserved
safemerge_key(key, target, reserved) ==
    LET taken(k) == Has(target, k) \/ k \in reserved
        bound == Len(target) + Cardinality(reserved) + 1
        n == CHOOSE m \in 0..bound :
                 /\ ~taken(K(key[1], key[2] + m))
                 /\ \A j \in 0..(m - 1) : taken(K(key[1], key[2] + j))
    IN K(key[1], key[2] + n)

\* safemerge(target, input, reserved, skip); reserved=None and skip=None
\* behave as the empty set
RECURSIVE safemerge(_, _, _, _)
safemerge(target, input, reserved, skip) ==
    IF input = <<>> THEN target
    ELSE LET src_key == Head(input)[1]
             val == Head(input)[2]
         IN IF src_key \in skip
            THEN safemerge(target, Tail(input), reserved, skip)
            ELSE safemerge(
                     Put(target, safemerge_key(src_key, target, reserved), val),
                     Tail(input), reserved, skip)

-----------------------------------------------------------------------------
(* common.GlobalLogContext *)

MaxDepth == 2

CtxKeys == {K("rid", 0), K("user", 0)}
CtxValues == {"s1", "s2"}

\* **attrs of one with_log_context call
CtxAttrs ==
    {<<<<K("rid", 0), "s1">>>>,
     <<<<K("rid", 0), "s2">>>>,
     <<<<K("user", 0), "s1">>>>,
     <<<<K("user", 0), "s2">>, <<K("rid", 0), "s1">>>>}

\* the dict a reference returned by get_log_context() denotes: self._items
\* itself, which nothing rebinds after __init__
SnapshotContents == items

\* __init__: self.clear(); nothing else calls clear
InitCtxCallers ==
    /\ scopes = <<>>
    /\ snapshot = "none"
    /\ g_started = FALSE
    /\ g_base = <<>>
    /\ g_clean = TRUE
    /\ g_lifo = TRUE
    /\ g_raised = FALSE
    /\ g_seen = {}
    /\ g_last = [k \in CtxKeys |-> "entry"]

InitCtx ==
    /\ items = <<>>
    /\ InitCtxCallers

\* line 114: [(key, self.get(key, Undefined)) for key in attrs]
old_values_of(d, attrs) ==
    [i \in DOMAIN attrs |-> <<attrs[i][1], Get(d, attrs[i][1], Undefined)>>]

restore_keeps_undefined(d, key, old_val) == Put(d, key, old_val)

\* lines 118-121: one iteration of the restoring loop
restore(d, key, old_val) ==
    IF old_val = Undefined THEN Pop(d, key) ELSE Put(d, key, old_val)

\* lines 117-121
RECURSIVE restore_all(_, _)
restore_all(d, old_values) ==
    IF old_values = <<>> THEN d
    ELSE restore_all(restore(d, Head(old_values)[1], Head(old_values)[2]),
                     Tail(old_values))

RemoveAt(s, i) == [j \in 1..(Len(s) - 1) |-> IF j < i THEN s[j] ELSE s[j + 1]]

\* the history variables follow the scopes for as long as nothing but scopes
\* has touched the store since the outermost one was entered (g_clean), and
\* rest at these values otherwise
NoLast == [k \in CtxKeys |-> "entry"]

DropHistory ==
    /\ g_clean' = FALSE
    /\ g_base' = <<>>
    /\ g_lifo' = TRUE
    /\ g_raised' = FALSE
    /\ g_seen' = {}
    /\ g_last' = NoLast

\* set(attr, val)
set ==
    \E attr \in CtxKeys, val \in CtxValues :
        /\ items' = Put(items, attr, val)
        /\ DropHistory
        /\ UNCHANGED <<scopes, snapshot, g_started>>
    /\ CtxFrame

\* with_log_context(**attrs) up to its yield (lines 114-116)
with_log_context_enter ==
    \E attrs \in CtxAttrs :
        LET outermost == scopes = <<>>
            clean == outermost \/ g_clean
            seen == IF outermost THEN {} ELSE g_seen
        IN /\ Len(scopes) < MaxDepth
           /\ scopes' = Append(scopes,
                  [old_values |-> old_values_of(items, attrs),
                   first |-> IF clean THEN DictKeys(attrs) \ seen ELSE {}])
           /\ items' = Update(items, attrs)
           /\ g_started' = TRUE
           /\ g_clean' = clean
           /\ g_base' = IF outermost THEN items ELSE g_base
           /\ g_lifo' = IF outermost THEN TRUE ELSE g_lifo
           /\ g_raised' = IF outermost THEN FALSE ELSE g_raised
           /\ g_seen' = IF clean THEN seen \cup DictKeys(attrs) ELSE g_seen
           /\ g_last' = IF clean
                        THEN [k \in CtxKeys |->
                                IF Has(attrs, k) \/ outermost
                                THEN "entry" ELSE g_last[k]]
                        ELSE g_last
           /\ UNCHANGED snapshot
    /\ CtxFrame

\* the generator is resumed after its yield: the block ended normally
\* (lines 117-121). A with statement exits the innermost scope; a caller
\* driving __enter__/__exit__ itself (contextlib.ExitStack, a stored
\* manager) can exit any of them.
with_log_context_exit ==
    \E i \in DOMAIN scopes :
        /\ items' = restore_all(items, scopes[i].old_values)
        /\ scopes' = RemoveAt(scopes, i)
        /\ g_lifo' = IF g_clean THEN g_lifo /\ i = Len(scopes) ELSE g_lifo
        /\ g_last' = IF g_clean
                     THEN [k \in CtxKeys |->
                             IF Has(scopes[i].old_values, k)
                             THEN (IF k \in scopes[i].first
                                   THEN "first" ELSE "later")
                             ELSE g_last[k]]
                     ELSE g_last
        /\ UNCHANGED <<snapshot, g_started, g_base, g_clean, g_raised, g_seen>>
    /\ CtxFrame

\* an error propagates out of the block: contextmanager throws it into the
\* generator at the yield of line 116, which has no try/finally around it,
\* so the generator ends there and lines 117-121 do not run
with_log_context_error ==
    \E i \in DOMAIN scopes :
        /\ scopes' = RemoveAt(scopes, i)
        /\ g_lifo' = IF g_clean THEN g_lifo /\ i = Len(scopes) ELSE g_lifo
        /\ g_raised' = g_clean
        /\ UNCHANGED <<items, snapshot, g_started, g_base, g_clean, g_seen,
                       g_last>>
    /\ CtxFrame

\* get_log_context(): return self._items
get_log_context ==
    /\ snapshot' = "self._items"
    /\ UNCHANGED <<items, scopes, g_started, g_base, g_clean, g_lifo,
                   g_raised, g_seen, g_last>>
    /\ CtxFrame

\* the caller stores into the mapping get_log_context() gave it
snapshot_write ==
    \E k \in CtxKeys, v \in CtxValues :
        /\ snapshot = "self._items"
        /\ items' = Put(items, k, v)
        /\ DropHistory
        /\ UNCHANGED <<scopes, snapshot, g_started>>
    /\ CtxFrame

\* the store and its scopes
NextCtx ==
    \/ set
    \/ with_log_context_enter
    \/ with_log_context_exit
    \/ with_log_context_error

\* the store, its scopes and the references it hands out
NextSnapshot ==
    \/ set
    \/ with_log_context_enter
    \/ with_log_context_exit
    \/ with_log_context_error
    \/ get_log_context
    \/ snapshot_write

-----------------------------------------------------------------------------
(* safemerge called on its own *)

MaxLen == 2

MergeKeys == {K("x", 0), K("x", 1), K("y", 0)}

IdleMerge ==
    /\ m_target = <<>>
    /\ m_input = <<>>
    /\ m_reserved = {}
    /\ m_skip = {}
    /\ m_result = <<>>
    /\ m_pc = "idle"

InitMerge ==
    /\ m_target \in Dicts(MergeKeys, {"t1"}, MaxLen)
    /\ m_input \in Dicts(MergeKeys, {"s1", "s2"}, MaxLen)
    /\ m_reserved \in SUBSET {K("x", 0), K("x", 1)}
    /\ m_skip \in SUBSET {K("x", 0), K("y", 0)}
    /\ m_result = <<>>
    /\ m_pc = "call"

\* result = safemerge(target, input, reserved, skip)
call_safemerge ==
    /\ m_pc = "call"
    /\ m_result' = safemerge(m_target, m_input, m_reserved, m_skip)
    /\ m_pc' = "done"
    /\ UNCHANGED <<m_target, m_input, m_reserved, m_skip>>
    /\ MergeFrame

NextMerge == call_safemerge

-----------------------------------------------------------------------------
(* common.ReadTimingStreamWrapper *)

MaxReads == 3
MaxChunk == 2
MaxClock == 2

\* what self._stream.read(*args, **kwargs) does: it returns a buffer of len
\* bytes, returns None (a non-blocking stream with nothing to give), or
\* raises after consuming len bytes
StreamOutcomes ==
    [kind : {"buffer", "raise"}, len : 0..MaxChunk]
        \cup {[kind |-> "none", len |-> 0]}

\* __init__
InitRead ==
    /\ read_byte_count = 0
    /\ first_read_time = <<>>
    /\ last_read_time = <<>>
    /\ now = 0
    /\ rd_result = [kind |-> "init", len |-> 0, error |-> None,
                    source |-> "init"]
    /\ g_returned = 0
    /\ g_reads = 0

count_after_any(count, outcome) == count + outcome.len

\* lines 97-98: len(res) is added only once the stream has returned, and
\* len(None) raises before the addition
count_after(count, outcome) ==
    IF outcome.kind = "buffer" THEN count + outcome.len ELSE count

\* what read gives its caller
read_result(outcome) ==
    CASE outcome.kind = "buffer" ->
             [kind |-> "returned", len |-> outcome.len, error |-> None,
              source |-> outcome.kind]
      [] outcome.kind = "raise" ->
             [kind |-> "raised", len |-> 0, error |-> "StreamReadFailure",
              source |-> outcome.kind]
      [] outcome.kind = "none" ->
             [kind |-> "raised", len |-> 0, error |-> "TypeError",
              source |-> outcome.kind]

\* read(*args, **kwargs); time.time() is called twice and does not go back
read ==
    \E t1 \in now..MaxClock, outcome \in StreamOutcomes :
        \E t2 \in (IF first_read_time = <<>> THEN t1 ELSE now)..MaxClock :
            /\ g_reads < MaxReads
            /\ first_read_time' =
                   IF first_read_time = <<>> THEN <<t1>> ELSE first_read_time
            /\ last_read_time' = <<t2>>
            /\ now' = t2
            /\ read_byte_count' = count_after(read_byte_count, outcome)
            /\ rd_result' = read_result(outcome)
            /\ g_returned' = g_returned +
                   (IF rd_result'.kind = "returned" THEN rd_result'.len ELSE 0)
            /\ g_reads' = g_reads + 1
    /\ ReadFrame

NextRead == read

-----------------------------------------------------------------------------
(* common.to_base *)

MaxNumber == 40

ALPHABET_36 ==
    <<"0", "1", "2", "3", "4", "5", "6", "7", "8", "9", "a", "b", "c", "d",
      "e", "f", "g", "h", "i", "j", "k", "l", "m", "n", "o", "p", "q", "r",
      "s", "t", "u", "v", "w", "x", "y", "z">>

Alphabets == {<<"0", "1">>, <<"a", "b">>, <<"a", "b", "c">>, ALPHABET_36}

Reverse(s) == [i \in 1..Len(s) |-> s[Len(s) + 1 - i]]

IdleBase ==
    /\ number = 0
    /\ alphabet = <<>>
    /\ in_base = <<>>
    /\ tb_arg = 0
    /\ tb_result = <<>>
    /\ tb_pc = "idle"

\* a call to_base(tb_arg, alphabet) about to run
InitBase ==
    /\ tb_arg \in -1..MaxNumber
    /\ alphabet \in Alphabets
    /\ number = tb_arg
    /\ in_base = <<>>
    /\ tb_result = <<>>
    /\ tb_pc = "start"

\* lines 16-17
to_base_negative ==
    /\ tb_pc = "start"
    /\ number < 0
    /\ tb_pc' = "ValueError"
    /\ UNCHANGED <<number, alphabet, in_base, tb_arg, tb_result>>
    /\ BaseFrame

\* lines 20-21
to_base_zero ==
    /\ tb_pc = "start"
    /\ number = 0
    /\ tb_result' = <<"0">>
    /\ tb_pc' = "done"
    /\ UNCHANGED <<number, alphabet, in_base, tb_arg>>
    /\ BaseFrame

\* line 23
to_base_begin ==
    /\ tb_pc = "start"
    /\ number > 0
    /\ in_base' = <<>>
    /\ tb_pc' = "loop"
    /\ UNCHANGED <<number, alphabet, tb_arg, tb_result>>
    /\ BaseFrame

\* lines 24-26
to_base_loop ==
    /\ tb_pc = "loop"
    /\ number # 0
    /\ number' = number \div Len(alphabet)
    /\ in_base' = Append(in_base, alphabet[(number % Len(alphabet)) + 1])
    /\ UNCHANGED <<alphabet, tb_arg, tb_result, tb_pc>>
    /\ BaseFrame

\* line 27
to_base_return ==
    /\ tb_pc = "loop"
    /\ number = 0
    /\ tb_result' = Reverse(in_base)
    /\ tb_pc' = "done"
    /\ UNCHANGED <<number, alphabet, in_base, tb_arg>>
    /\ BaseFrame

NextBase ==
    \/ to_base_negative
    \/ to_base_zero
    \/ to_base_begin
    \/ to_base_loop
    \/ to_base_return

-----------------------------------------------------------------------------
(* json.JsonLogFormatter *)

\* lines 11-35
LOGGING_RECORD_ATTRS ==
    {K(n, 0) : n \in
        {"args", "asctime", "created", "exc_info", "exc_text", "filename",
         "funcName", "levelname", "levelno", "lineno", "module", "msecs",
         "message", "msg", "name", "pathname", "process", "processName",
         "relativeCreated", "thread", "threadName"}}

\* lines 111-123: self.fields
Fields ==
    <<"asctime", "levelname", "levelno", "pid", "threadName", "thread",
      "name", "message", "*exc", "*context", "*extra">>

\* line 124: self._reserved_fields
reserved_fields == {K(Fields[i], 0) : i \in DOMAIN Fields} \cup LOGGING_RECORD_ATTRS

\* an Optional[...] is <<>> for None and <<x>> for x
Some(x) == <<x>>

\* the attributes logging.LogRecord sets on every record
NaturalAttrs ==
    <<<<K("name", 0), "<name>">>, <<K("msg", 0), "<msg>">>,
      <<K("args", 0), "<args>">>, <<K("levelname", 0), "<levelname>">>,
      <<K("levelno", 0), "<levelno>">>, <<K("exc_info", 0), "<exc_info>">>,
      <<K("thread", 0), "<thread>">>, <<K("threadName", 0), "<threadName>">>,
      <<K("process", 0), "<process>">>>>

BaseFieldsChoices ==
    {<<>>,
     <<<<K("app", 0), "b1">>>>,
     <<<<K("pid", 0), "b1">>>>,
     <<<<K("context", 0), "b1">>>>,
     <<<<K("exc_message", 0), "b1">>>>}

ContextFromEnvironChoices ==
    {<<>>,
     Some(<<<<K("rid", 0), K("LOG_REQUEST_ID", 0)>>>>),
     Some(<<<<K("rid", 0), K("LOG_REQUEST_ID", 0)>>,
            <<K("rid", 1), K("REMOTE_ADDR", 0)>>>>)}

EnvironChoices ==
    {<<>>,
     <<<<K("LOG_REQUEST_ID", 0), "e1">>>>,
     <<<<K("LOG_REQUEST_ID", 0), "e1">>, <<K("REMOTE_ADDR", 0), "e2">>>>}

MsgChoices ==
    {[kind |-> "str", d |-> <<>>],
     [kind |-> "dict", d |-> <<<<K("x", 0), "u1">>>>],
     [kind |-> "dict", d |-> <<<<K("context", 0), "u1">>,
                               <<K("exc_message", 0), "u1">>>>],
     [kind |-> "dict", d |-> <<<<K("message", 0), "u1">>,
                               <<K("asctime", 0), "u1">>>>]}

ExtraChoices ==
    {<<>>,
     <<<<K("x", 0), "u2">>>>,
     <<<<K("exc_message", 0), "u2">>, <<K("pid", 0), "u2">>>>,
     <<<<K("context", 0), "u2">>>>}

StoreChoices ==
    {<<>>,
     <<<<K("rid", 0), "s1">>>>,
     <<<<K("rid", 0), "s1">>, <<K("rid", 1), "s2">>>>}

IdleFmt ==
    /\ base_fields = <<>>
    /\ get_environ = "None"
    /\ context_from_environ = <<>>
    /\ prefix = ""
    /\ r_msg = [kind |-> "str", d |-> <<>>]
    /\ r_exc_info = FALSE
    /\ r_dict = <<>>
    /\ record_obj = <<>>
    /\ f_i = 0
    /\ context = <<>>
    /\ environ = <<>>
    /\ json_str = <<>>
    /\ f_out = <<>>
    /\ f_pc = "idle"

\* a formatter built by __init__ (lines 102-110), a record, and the calling
\* thread's context store, with format(record) about to run
InitFmt ==
    /\ base_fields \in BaseFieldsChoices
    /\ get_environ \in {"None", "callable"}
    /\ context_from_environ \in ContextFromEnvironChoices
    /\ prefix \in {"", "p:"}
    /\ r_msg \in MsgChoices
    /\ r_exc_info \in BOOLEAN
    /\ r_dict \in {NaturalAttrs \o extra : extra \in ExtraChoices}
    /\ items \in StoreChoices
    /\ record_obj = <<>>
    /\ f_i = 0
    /\ context = <<>>
    /\ environ = <<>>
    /\ json_str = <<>>
    /\ f_out = <<>>
    /\ f_pc = "start"

AtField(name) == f_pc = "fields" /\ f_i \in DOMAIN Fields /\ Fields[f_i] = name

\* an error leaves format_obj, and format (line 168 is outside the try)
Raise(error) ==
    /\ f_pc' = "raised"
    /\ f_out' = [error |-> error]

\* line 133
format_obj_begin ==
    /\ f_pc = "start"
    /\ record_obj' = base_fields
    /\ f_i' = 1
    /\ f_pc' = "fields"
    /\ UNCHANGED <<context, environ, json_str, f_out>>
    /\ FmtFrame

\* lines 127-130: _add_exc
add_exc(obj) ==
    Put(Put(obj, K("exc_message", 0), "<exc_message>"),
        K("exc_traceback", 0), "<exc_traceback>")

\* lines 135-137
field_exc ==
    /\ AtField("*exc")
    /\ record_obj' = IF r_exc_info THEN add_exc(record_obj) ELSE record_obj
    /\ f_i' = f_i + 1
    /\ UNCHANGED <<context, environ, json_str, f_out, f_pc>>
    /\ FmtFrame

\* lines 138-144
field_extra ==
    /\ AtField("*extra")
    /\ record_obj' = safemerge(record_obj, r_dict, reserved_fields,
                               LOGGING_RECORD_ATTRS)
    /\ f_i' = f_i + 1
    /\ UNCHANGED <<context, environ, json_str, f_out, f_pc>>
    /\ FmtFrame

\* lines 149-151
RECURSIVE copy_from_environ(_, _, _)
copy_from_environ(ctx, mapping, env) ==
    IF mapping = <<>> THEN ctx
    ELSE LET field == Head(mapping)[1]
             env_field == Head(mapping)[2]
         IN copy_from_environ(
                IF Has(env, env_field)
                THEN Put(ctx, field, Get(env, env_field, None))
                ELSE ctx,
                Tail(mapping), env)

merge_store_overwriting(ctx, store) == Update(ctx, store)

\* line 152
merge_store(ctx, store) == safemerge(ctx, store, {}, {})

\* line 153
nest_context(obj) == safemerge(obj, <<<<K("context", 0), "<context>">>>>, {}, {})

\* lines 145-153, self.get_environ is None
field_context_no_environ ==
    /\ AtField("*context")
    /\ get_environ = "None"
    /\ context' = merge_store(<<>>, items)
    /\ record_obj' = nest_context(record_obj)
    /\ f_i' = f_i + 1
    /\ UNCHANGED <<environ, json_str, f_out, f_pc>>
    /\ FmtFrame

\* lines 145-153, self.get_environ() returns a mapping
field_context_environ ==
    /\ AtField("*context")
    /\ get_environ = "callable"
    /\ context_from_environ # <<>>
    /\ \E env \in EnvironChoices :
           /\ environ' = env
           /\ context' = merge_store(
                  copy_from_environ(<<>>, context_from_environ[1], env), items)
    /\ record_obj' = nest_context(record_obj)
    /\ f_i' = f_i + 1
    /\ UNCHANGED <<json_str, f_out, f_pc>>
    /\ FmtFrame

\* line 148: self.get_environ() raises
field_context_environ_raises ==
    /\ AtField("*context")
    /\ get_environ = "callable"
    /\ Raise("get_environ")
    /\ UNCHANGED <<record_obj, f_i, context, environ, json_str>>
    /\ FmtFrame

\* line 149: self.context_from_environ is None, and None has no items()
field_context_no_mapping ==
    /\ AtField("*context")
    /\ get_environ = "callable"
    /\ context_from_environ = <<>>
    /\ \E env \in EnvironChoices : environ' = env
    /\ Raise("AttributeError")
    /\ UNCHANGED <<record_obj, f_i, context, json_str>>
    /\ FmtFrame

\* lines 154-155
field_asctime ==
    /\ AtField("asctime")
    /\ record_obj' = Put(record_obj, K("asctime", 0), "<asctime>")
    /\ f_i' = f_i + 1
    /\ UNCHANGED <<context, environ, json_str, f_out, f_pc>>
    /\ FmtFrame

\* lines 157-159: record.msg is a dict
field_message_dict ==
    /\ AtField("message")
    /\ r_msg.kind = "dict"
    /\ record_obj' = safemerge(record_obj, r_msg.d, reserved_fields, {})
    /\ f_i' = f_i + 1
    /\ UNCHANGED <<context, environ, json_str, f_out, f_pc>>
    /\ FmtFrame

\* line 160: record.getMessage() renders msg % args
field_message ==
    /\ AtField("message")
    /\ r_msg.kind # "dict"
    /\ record_obj' = Put(record_obj, K("message", 0), "<message>")
    /\ f_i' = f_i + 1
    /\ UNCHANGED <<context, environ, json_str, f_out, f_pc>>
    /\ FmtFrame

\* line 160: msg % args raises
field_message_raises ==
    /\ AtField("message")
    /\ r_msg.kind # "dict"
    /\ Raise("getMessage")
    /\ UNCHANGED <<record_obj, f_i, context, environ, json_str>>
    /\ FmtFrame

\* lines 161-162
field_pid ==
    /\ AtField("pid")
    /\ record_obj' = Put(record_obj, K("pid", 0), "<pid>")
    /\ f_i' = f_i + 1
    /\ UNCHANGED <<context, environ, json_str, f_out, f_pc>>
    /\ FmtFrame

\* lines 163-164
field_other ==
    /\ f_pc = "fields"
    /\ f_i \in DOMAIN Fields
    /\ Fields[f_i] \in {"levelname", "levelno", "threadName", "thread", "name"}
    /\ record_obj' = Put(record_obj, K(Fields[f_i], 0),
                         Get(r_dict, K(Fields[f_i], 0), None))
    /\ f_i' = f_i + 1
    /\ UNCHANGED <<context, environ, json_str, f_out, f_pc>>
    /\ FmtFrame

\* line 165
format_obj_return ==
    /\ f_pc = "fields"
    /\ f_i = Len(Fields) + 1
    /\ f_pc' = "dumps"
    /\ UNCHANGED <<record_obj, f_i, context, environ, json_str, f_out>>
    /\ FmtFrame

\* line 176
Emit(str) ==
    /\ json_str' = str
    /\ f_out' = [prefix |-> prefix, body |-> str]
    /\ f_pc' = "done"
    /\ UNCHANGED <<record_obj, f_i, context, environ>>

\* line 170: self.json_dumps(record_obj) returns
format_dumps ==
    /\ f_pc = "dumps"
    /\ Emit([kind |-> "json", error |-> None, obj |-> record_obj])
    /\ FmtFrame

\* lines 171-173: json_dumps raises e, and "(error encoding: %r) %r" is built
\* from e and record_obj
format_fallback ==
    /\ f_pc = "dumps"
    /\ Emit([kind |-> "(error encoding: %r) %r", error |-> "json_dumps error",
             obj |-> record_obj])
    /\ FmtFrame

\* lines 174-175: building that string raises too (a repr that fails); the
\* inner handler binds its own error to e, and that is the one printed
format_minimal ==
    /\ f_pc = "dumps"
    /\ Emit([kind |-> "(error encoding: %r)", error |-> "repr error",
             obj |-> <<>>])
    /\ FmtFrame

NextFmt ==
    \/ format_obj_begin
    \/ field_asctime
    \/ field_other
    \/ field_pid
    \/ field_message
    \/ field_message_dict
    \/ field_message_raises
    \/ field_exc
    \/ field_context_no_environ
    \/ field_context_environ
    \/ field_context_environ_raises
    \/ field_context_no_mapping
    \/ field_extra
    \/ format_obj_return
    \/ format_dumps
    \/ format_fallback
    \/ format_minimal

-----------------------------------------------------------------------------
(* Specifications: one component runs, the others stay as constructed *)

InitSpec == InitCtx /\ IdleMerge /\ IdleFmt /\ InitRead /\ IdleBase
InitSpecMerge == InitCtx /\ InitMerge /\ IdleFmt /\ InitRead /\ IdleBase
InitSpecFmt == InitCtxCallers /\ IdleMerge /\ InitFmt /\ InitRead /\ IdleBase
InitSpecBase == InitCtx /\ IdleMerge /\ IdleFmt /\ InitRead /\ InitBase

\* set and scopes on one thread's GlobalLogContext
Spec == InitSpec /\ [][NextCtx]_vars

\* the same, with callers that hold what get_log_context returned
SpecSnapshot == InitSpec /\ [][NextSnapshot]_vars

\* one call of safemerge
SpecMerge == InitSpecMerge /\ [][NextMerge]_vars

\* one call of JsonLogFormatter.format
SpecFmt == InitSpecFmt /\ [][NextFmt]_vars

\* reads on one ReadTimingStreamWrapper
SpecRead == InitSpec /\ [][NextRead]_vars

\* one call of to_base
SpecBase == InitSpecBase /\ [][NextBase]_vars

-----------------------------------------------------------------------------
(* Properties *)

AllExited == scopes = <<>> /\ g_started

\* C1: once every properly nested scope has exited, normally or by an error,
\* and nothing but scopes touched the store, the store holds exactly what it
\* held before the outermost scope was entered.
C1_NestedScopesRestore ==
    (AllExited /\ g_clean /\ g_lifo) => AsMap(items) = AsMap(g_base)

\* C8 as stated: scopes that all ended normally, released in any order,
\* leave the store with what it held before the first was entered.
C8_AnyReleaseOrderRestores ==
    (AllExited /\ g_clean /\ ~g_raised) => AsMap(items) = AsMap(g_base)

SameAsBefore(k) ==
    /\ Has(items, k) <=> Has(g_base, k)
    /\ Get(items, k, Undefined) = Get(g_base, k, Undefined)

\* C8 amended: once all scopes are gone, a key no scope overrode, or whose
\* last writer was the restoration of the first scope that overrode it (as
\* in last-entered-first-released order, or any order when no two scopes
\* share the key), holds what it held before the outermost scope.
C8_FirstScopeRestoresLast ==
    (AllExited /\ g_clean) =>
        \A k \in CtxKeys :
            (k \notin g_seen \/ g_last[k] = "first") => SameAsBefore(k)

\* C8 witness: two scopes on different keys, the outer one released first
C8_Witness ==
    /\ AllExited /\ g_clean /\ ~g_lifo /\ ~g_raised
    /\ g_seen = CtxKeys
    /\ \A k \in CtxKeys : g_last[k] = "first"
    /\ g_base # <<>>

\* C9: what get_log_context returned does not change when the store is set
\* or a scope is entered or left, and writing to it does not change the
\* store.
C9_SnapshotIsIndependent ==
    [][/\ (snapshot = "self._items" /\
             (set \/ with_log_context_enter \/ with_log_context_exit))
          => SnapshotContents' = SnapshotContents
       /\ snapshot_write => items' = items]_vars

MergeDone == m_pc = "done"

NonSkipped == {i \in DOMAIN m_input : m_input[i][1] \notin m_skip}

NewKeys == DictKeys(m_result) \ DictKeys(m_target)

\* C5: safemerge keeps every entry of target, adds for every non-skipped
\* source key exactly one key of its own (the source key plus zero or more
\* underscores) that was neither in target nor reserved and holds the source
\* value, and adds nothing else; {x: 1} merged with {x: 2} is {x: 1, x_: 2}.
C5_SafemergeOnlyAdds ==
    MergeDone =>
        /\ \A i, j \in DOMAIN m_result :
               m_result[i][1] = m_result[j][1] => i = j
        /\ \A k \in DictKeys(m_target) :
               Has(m_result, k) /\
               Get(m_result, k, None) = Get(m_target, k, None)
        /\ Len(m_result) = Len(m_target) + Cardinality(NonSkipped)
        /\ NewKeys \cap m_reserved = {}
        /\ \E f \in [NonSkipped -> NewKeys] :
               /\ \A i, j \in NonSkipped : f[i] = f[j] => i = j
               /\ \A i \in NonSkipped :
                      /\ f[i][1] = m_input[i][1][1]
                      /\ f[i][2] >= m_input[i][1][2]
                      /\ Get(m_result, f[i], None) = m_input[i][2]
        /\ (/\ m_target = <<<<K("x", 0), "t1">>>>
            /\ m_input = <<<<K("x", 0), "s2">>>>
            /\ m_reserved = {}
            /\ m_skip = {})
           => m_result = <<<<K("x", 0), "t1">>, <<K("x", 1), "s2">>>>

\* C5 witness: a key was skipped and another renamed twice
C5_Witness ==
    /\ MergeDone
    /\ Cardinality(NonSkipped) < Len(m_input)
    /\ \E i \in NonSkipped :
           ~Has(m_result, m_input[i][1]) \/
           Get(m_result, m_input[i][1], None) # m_input[i][2]
    /\ \E k \in NewKeys : k[2] >= 2

\* C6: read_byte_count is the sum of the lengths of the buffers read gave
\* its caller; a read whose source raises raises the same error and counts
\* nothing.
C6_CountIsBytesReturned ==
    /\ read_byte_count = g_returned
    /\ rd_result.source = "raise" =>
           rd_result.kind = "raised" /\ rd_result.error = "StreamReadFailure"

\* C6 witness: bytes were returned, then the source raised
C6_Witness ==
    /\ g_reads >= 2
    /\ read_byte_count > 0
    /\ rd_result.source = "raise"

IndexOf(c, alpha) ==
    IF \E i \in DOMAIN alpha : alpha[i] = c
    THEN (CHOOSE i \in DOMAIN alpha : alpha[i] = c) - 1
    ELSE -1

\* the number a most-significant-first digit string denotes, -1 when a
\* character is not of the alphabet
RECURSIVE Decode(_, _)
Decode(str, alpha) ==
    IF str = <<>> THEN 0
    ELSE LET d == IndexOf(str[Len(str)], alpha)
             rest == Decode(SubSeq(str, 1, Len(str) - 1), alpha)
         IN IF d < 0 \/ rest < 0 THEN -1 ELSE rest * Len(alpha) + d

\* C7: for n >= 0, decoding to_base(n, alphabet) with the alphabet gives n,
\* and to_base(0, alphabet) is the alphabet's first character.
C7_ToBaseRoundTrip ==
    tb_pc = "done" =>
        /\ Decode(tb_result, alphabet) = tb_arg
        /\ tb_arg = 0 => tb_result = <<alphabet[1]>>

ContextIndex == CHOOSE i \in DOMAIN Fields : Fields[i] = "*context"

ContextBuilt == f_pc \in {"fields", "dumps", "done"} /\ f_i > ContextIndex

Assembled == f_pc \in {"dumps", "done"}

\* the output keys produced both from the environment and from the store
FromBoth ==
    IF get_environ = "callable" /\ context_from_environ # <<>>
    THEN {k \in DictKeys(context_from_environ[1]) \cap DictKeys(items) :
            Has(environ, Get(context_from_environ[1], k, None))}
    ELSE {}

EnvironValue(k) == Get(environ, Get(context_from_environ[1], k, None), None)

\* C2: format never raises; it returns the configured prefix followed by
\* the encoding, or, when the encoder raises, by the fallback string made of
\* the encoding error and the object's repr, or, when that fails too, by the
\* minimal string made of the encoding error alone.
C2_FormatIsTotal ==
    /\ f_pc # "raised"
    /\ f_pc = "done" =>
           /\ f_out.prefix = prefix
           /\ f_out.body.kind \in
                  {"json", "(error encoding: %r) %r", "(error encoding: %r)"}
           /\ f_out.body.kind # "json" => f_out.body.error = "json_dumps error"

\* C3 as stated: a key produced from both the environment and the store
\* holds the store's value in the context block.
C3_StoreWins ==
    ContextBuilt =>
        \A k \in FromBoth : Get(context, k, None) = Get(items, k, None)

\* C3 amended: such a key holds the environment's value, and the store's
\* value is in the block under the key followed by one or more underscores.
C3_EnvironmentKeepsKey ==
    ContextBuilt =>
        \A k \in FromBoth :
            /\ Get(context, k, None) = EnvironValue(k)
            /\ \E n \in 1..Len(context) :
                   /\ Has(context, K(k[1], k[2] + n))
                   /\ Get(context, K(k[1], k[2] + n), None) = Get(items, k, None)

\* C3 witness: a finished format whose environment and store both gave rid
C3_Witness ==
    /\ f_pc = "done"
    /\ K("rid", 0) \in FromBoth
    /\ EnvironValue(K("rid", 0)) # Get(items, K("rid", 0), None)

\* C4: every base field is in the assembled object under its own key with
\* its own value.
C4_BaseFieldsKept ==
    Assembled =>
        \A k \in DictKeys(base_fields) :
            Has(record_obj, k) /\
            Get(record_obj, k, None) = Get(base_fields, k, None)

\* the entry <<k, v>> is in the object under k or k plus underscores
Kept(e) ==
    \E n \in 0..Len(record_obj) :
        /\ Has(record_obj, K(e[1][1], e[1][2] + n))
        /\ Get(record_obj, K(e[1][1], e[1][2] + n), None) = e[2]

\* C10: every entry of a mapping message and every extra attribute is in
\* the assembled object under its key or that key plus underscores, the
\* context block is under context, and the exception block under
\* exc_message and exc_traceback.
C10_NothingDroppedOrShadowed ==
    Assembled =>
        /\ r_msg.kind = "dict" => \A i \in DOMAIN r_msg.d : Kept(r_msg.d[i])
        /\ \A i \in DOMAIN r_dict :
               r_dict[i][1] \notin LOGGING_RECORD_ATTRS => Kept(r_dict[i])
        /\ Get(record_obj, K("context", 0), None) = "<context>"
        /\ r_exc_info =>
               /\ Get(record_obj, K("exc_message", 0), None) = "<exc_message>"
               /\ Get(record_obj, K("exc_traceback", 0), None) = "<exc_traceback>"

=============================================================================
